---- MODULE Spec2Model ----
(***************************************************************************)
(* Teacher substitution back end: timetable ingestion                      *)
(* (routers/timetable.py), substitute selection and the full-day absence   *)
(* report (routers/absence.py) over the SQLAlchemy session of database.py. *)
(*                                                                         *)
(* Text is modelled as a sequence of one-character strings, so that the    *)
(* string functions of the source (lower, replace, strip, the regular      *)
(* expressions) are computed character by character.  A NaN cell of the    *)
(* pandas frame is the empty sequence.                                     *)
(***************************************************************************)
EXTENDS Integers, Sequences, FiniteSets, TLC

(* ------------------------------------------------------------------ *)
(* Characters and Python's str methods                                 *)
(* ------------------------------------------------------------------ *)

UC == <<"A","B","C","D","E","F","G","H","I","J","K","L","M","N","O","P","Q","R","S","T","U","V","W","X","Y","Z">>
LC == <<"a","b","c","d","e","f","g","h","i","j","k","l","m","n","o","p","q","r","s","t","u","v","w","x","y","z">>
UpperChars == {UC[i] : i \in 1..Len(UC)}
LowerChars == {LC[i] : i \in 1..Len(LC)}
DigitChars == {"0","1","2","3","4","5","6","7","8","9"}
SpaceChars == {" "}
\* \w of the re module, over the modelled alphabet
WordChars == UpperChars \cup LowerChars \cup DigitChars \cup {"_"}

LowerChar(c) == IF c \in UpperChars THEN LC[CHOOSE i \in 1..Len(UC) : UC[i] = c] ELSE c
UpperChar(c) == IF c \in LowerChars THEN UC[CHOOSE i \in 1..Len(LC) : LC[i] = c] ELSE c
\* str.lower(), str.upper()
Lower(s) == [i \in 1..Len(s) |-> LowerChar(s[i])]
Upper(s) == [i \in 1..Len(s) |-> UpperChar(s[i])]

\* s[i] when i is an index of s, and "" (no character) past either end
At(s, i) == IF i \in 1..Len(s) THEN s[i] ELSE ""

\* the least j >= i whose character is not in C (Len(s)+1 when there is none)
RECURSIVE SkipWhile(_, _, _)
SkipWhile(s, i, C) == IF At(s, i) \in C THEN SkipWhile(s, i + 1, C) ELSE i

\* the greatest j <= i whose character is not in C (0 when there is none)
RECURSIVE SkipBack(_, _, _)
SkipBack(s, i, C) == IF At(s, i) \in C THEN SkipBack(s, i - 1, C) ELSE i

\* str.strip(chars): C is the set of characters stripped from both ends
StripChars(s, C) == SubSeq(s, SkipWhile(s, 1, C), SkipBack(s, Len(s), C))
\* str.strip()
Strip(s) == StripChars(s, SpaceChars)

\* s[i:i+len(sub)] == sub
StartsAt(s, sub, i) ==
    /\ i >= 1
    /\ i + Len(sub) - 1 <= Len(s)
    /\ SubSeq(s, i, i + Len(sub) - 1) = sub
\* sub in s
Contains(s, sub) == \E i \in 1..(Len(s) + 1) : StartsAt(s, sub, i)
\* s.startswith(sub)
StartsWith(s, sub) == StartsAt(s, sub, 1)

\* the characters of s that satisfy the membership test, in order
RECURSIVE KeepChars(_, _)
KeepChars(s, C) ==
    IF s = <<>> THEN <<>>
    ELSE (IF Head(s) \in C THEN <<Head(s)>> ELSE <<>>) \o KeepChars(Tail(s), C)
RECURSIVE DropChars(_, _)
DropChars(s, C) ==
    IF s = <<>> THEN <<>>
    ELSE (IF Head(s) \in C THEN <<>> ELSE <<Head(s)>>) \o DropChars(Tail(s), C)
\* s.replace(a, b) for single characters a and b
ReplaceChar(s, a, b) == [i \in 1..Len(s) |-> IF s[i] = a THEN b ELSE s[i]]

\* str.split(): the maximal runs of non-space characters
RECURSIVE SplitWords(_)
SplitWords(s) ==
    LET i == SkipWhile(s, 1, SpaceChars)
        j == SkipWhile(s, i, {s[k] : k \in 1..Len(s)} \ SpaceChars)
    IN  IF i > Len(s) THEN <<>>
        ELSE <<SubSeq(s, i, j - 1)>> \o SplitWords(SubSeq(s, j, Len(s)))

\* s.split(c)[0] for a single character c
BeforeChar(s, c) ==
    IF \E i \in 1..Len(s) : s[i] = c
    THEN SubSeq(s, 1, (CHOOSE i \in 1..Len(s) : s[i] = c /\ \A k \in 1..(i - 1) : s[k] # c) - 1)
    ELSE s

\* str(cell): pandas reads an empty cell as NaN, whose str() is 'nan'
NaN == <<>>
StrOf(cell) == IF cell = NaN THEN <<"n","a","n">> ELSE cell

(* ------------------------------------------------------------------ *)
(* routers/timetable.py: the cell predicates of the parser             *)
(* ------------------------------------------------------------------ *)

WeekdayNames == <<<<"M","o","n","d","a","y">>, <<"T","u","e","s","d","a","y">>, <<"W","e","d","n","e","s","d","a","y">>, <<"T","h","u","r","s","d","a","y">>, <<"F","r","i","d","a","y">>>>
AllDayNames == {WeekdayNames[i] : i \in 1..Len(WeekdayNames)} \cup {<<"S","a","t","u","r","d","a","y">>, <<"S","u","n","d","a","y">>}

\* ^[\d]+[A-Z](/[A-Z])? : the index just after the class code at the start
\* of s, or 0 when s does not start with one
ClassCodeEnd(s) ==
    LET p == SkipWhile(s, 1, DigitChars)
        q == IF At(s, p + 1) = "/" /\ At(s, p + 2) \in UpperChars THEN p + 3 ELSE p + 1
    IN  IF p > 1 /\ At(s, p) \in UpperChars THEN q ELSE 0

\* re.search(r'HRT\s*-?\s*\d+[A-Z]', s)
HasHrtClassCode(s) ==
    \E i \in 1..Len(s) :
        /\ StartsAt(s, <<"H","R","T">>, i)
        /\ LET p1 == SkipWhile(s, i + 3, SpaceChars)
               p2 == IF At(s, p1) = "-" THEN SkipWhile(s, p1 + 1, SpaceChars) ELSE p1
               p3 == SkipWhile(s, p2, DigitChars)
           IN  p3 > p2 /\ At(s, p3) \in UpperChars

\* re.search(r'\d{1,2}:\d{2}', s)
HasClockTime(s) ==
    \E i \in 1..Len(s) :
        /\ s[i] \in DigitChars
        /\ At(s, i + 1) = ":"
        /\ At(s, i + 2) \in DigitChars
        /\ At(s, i + 3) \in DigitChars

\* re.match(r'^[\d]+[A-Z](/[A-Z])?\s*\(.*\)$', s)
IsAnnotatedClassCode(s) ==
    LET q == ClassCodeEnd(s)
        r == SkipWhile(s, q, SpaceChars)
    IN  q > 0 /\ At(s, r) = "(" /\ Len(s) > r /\ s[Len(s)] = ")"

\* re.match(r'^[\d]+[A-Z](/[A-Z])?$', s)
IsBareClassCode(s) == ClassCodeEnd(s) = Len(s) + 1

single_word_rejects ==
    { <<"R","E","A","D","I","N","G">>, <<"A","R","T">>, <<"M","U","S","I","C">>, <<"D","A","N","C","E">>, <<"K","A","R","A","T","E">>, <<"Y","O","G","A">>, <<"S","P","O","R","T","S">>,
      <<"P","E">>, <<"L","I","B","R","A","R","Y">>, <<"C","R","A","F","T">>, <<"D","R","A","M","A">>, <<"T","H","E","A","T","E","R">>, <<"B","A","N","D">>, <<"C","H","O","I","R">> }

is_teacher_name_cell(cell) ==
    LET cell_value == Strip(cell)
        words == SplitWords(cell_value)
    IN  IF cell_value = <<>> \/ cell_value = <<"n","a","n">> THEN FALSE
        ELSE IF HasHrtClassCode(cell_value) THEN FALSE
        ELSE IF Contains(cell_value, <<"N","O","N","-","H","R","T">>) THEN FALSE
        ELSE IF cell_value \in AllDayNames THEN FALSE
        ELSE IF HasClockTime(cell_value) THEN FALSE
        ELSE IF IsAnnotatedClassCode(cell_value) THEN FALSE
        ELSE IF Upper(cell_value) \in single_word_rejects THEN FALSE
        ELSE IF IsBareClassCode(cell_value) THEN FALSE
        ELSE IF Contains(Upper(cell_value), <<"H","R","T">>) THEN TRUE
        ELSE IF Len(words) < 2 THEN FALSE
        ELSE IF \A k \in 1..Len(words) : Len(words[k]) <= 2 THEN FALSE
        ELSE TRUE

\* re.sub(r'\bHRT\b\s*-?\s*', '', s, flags=re.IGNORECASE), scanning from i
RECURSIVE RemoveHrt(_, _)
RemoveHrt(s, i) ==
    IF i > Len(s) THEN <<>>
    ELSE IF /\ StartsAt(Upper(s), <<"H","R","T">>, i)
            /\ At(s, i - 1) \notin WordChars
            /\ At(s, i + 3) \notin WordChars
         THEN LET p1 == SkipWhile(s, i + 3, SpaceChars)
                  p2 == IF At(s, p1) = "-" THEN SkipWhile(s, p1 + 1, SpaceChars) ELSE p1
              IN  RemoveHrt(s, p2)
         ELSE <<s[i]>> \o RemoveHrt(s, i + 1)

\* the index of the first c at or after i (0 when there is none)
FirstIndexFrom(s, c, i) ==
    IF \E k \in i..Len(s) : s[k] = c
    THEN CHOOSE k \in i..Len(s) : s[k] = c /\ \A m \in i..(k - 1) : s[m] # c
    ELSE 0

\* re.sub(r'\s*\([^)]*\)', '', s), scanning from i
RECURSIVE RemoveParens(_, _)
RemoveParens(s, i) ==
    IF i > Len(s) THEN <<>>
    ELSE LET p == SkipWhile(s, i, SpaceChars)
             c == FirstIndexFrom(s, ")", p + 1)
         IN  IF At(s, p) = "(" /\ c > 0
             THEN RemoveParens(s, c + 1)
             ELSE <<s[i]>> \o RemoveParens(s, i + 1)

CodeSuffixChars == DigitChars \cup UpperChars \cup {",", "/"} \cup SpaceChars

\* re.sub(r'\s*-\s*[\d,A-Z/\s]+$', '', s): the leftmost match runs to the end
RemoveCodeSuffix(s) ==
    LET Matches(i) ==
            LET p == SkipWhile(s, i, SpaceChars)
            IN  /\ At(s, p) = "-"
                /\ p < Len(s)
                /\ \A k \in (p + 1)..Len(s) : s[k] \in CodeSuffixChars
    IN  IF \E i \in 1..Len(s) : Matches(i)
        THEN SubSeq(s, 1, (CHOOSE i \in 1..Len(s) :
                              Matches(i) /\ \A k \in 1..(i - 1) : ~Matches(k)) - 1)
        ELSE s

\* re.sub(r'/[A-Z]', '', s), scanning from i
RECURSIVE RemoveSlashCodes(_, _)
RemoveSlashCodes(s, i) ==
    IF i > Len(s) THEN <<>>
    ELSE IF s[i] = "/" /\ At(s, i + 1) \in UpperChars
         THEN RemoveSlashCodes(s, i + 2)
         ELSE <<s[i]>> \o RemoveSlashCodes(s, i + 1)

\* variant for sensitivity analysis: the class-code suffix is kept
clean_teacher_name_with_suffix(raw_name) ==
    LET n0 == Strip(raw_name)
        n1 == Strip(RemoveHrt(n0, 1))
        n2 == Strip(RemoveParens(n1, 1))
        n4 == IF \E k \in 1..Len(n2) : n2[k] = "," THEN Strip(BeforeChar(n2, ",")) ELSE n2
    IN  Strip(RemoveSlashCodes(n4, 1))

clean_teacher_name(raw_name) ==
    LET n0 == Strip(raw_name)
        n1 == Strip(RemoveHrt(n0, 1))
        n2 == Strip(RemoveParens(n1, 1))
        n3 == Strip(RemoveCodeSuffix(n2))
        n4 == IF \E k \in 1..Len(n3) : n3[k] = "," THEN Strip(BeforeChar(n3, ",")) ELSE n3
    IN  Strip(RemoveSlashCodes(n4, 1))

EmailDomain == <<"@","s","c","h","o","o","l",".","e","d","u">>
EmailLocalChars == LowerChars \cup DigitChars \cup {".", "_", "-"}

generate_valid_email(teacher_name) ==
    LET l1 == DropChars(Lower(teacher_name), {" "})
        l2 == KeepChars(l1, EmailLocalChars)
        l3 == StripChars(l2, {".", "-"})
    IN  (IF l3 = <<>> THEN <<"t","e","a","c","h","e","r">> ELSE l3) \o EmailDomain

\* the separator class of parse_time_slot; its other three members (U+00E2,
\* U+20AC, U+201C) lie outside the modelled alphabet
DashChars == {"-"}

\* re.split(r'\s*[-...]\s*', s)
RECURSIVE SplitOnDash(_)
SplitOnDash(s) ==
    IF \E k \in 1..Len(s) : s[k] \in DashChars
    THEN LET d == CHOOSE k \in 1..Len(s) :
                     s[k] \in DashChars /\ \A m \in 1..(k - 1) : s[m] \notin DashChars
             a == SkipBack(s, d - 1, SpaceChars)
             b == SkipWhile(s, d + 1, SpaceChars)
         IN  <<SubSeq(s, 1, a)>> \o SplitOnDash(SubSeq(s, b, Len(s)))
    ELSE <<s>>

\* <<start, end>>, or <<>> for None
parse_time_slot(time_cell) ==
    LET time_str == Strip(time_cell)
        time_parts == SplitOnDash(time_str)
        start == ReplaceChar(Strip(time_parts[1]), ".", ":")
        end == ReplaceChar(Strip(time_parts[2]), ".", ":")
    IN  IF Contains(Upper(time_str), <<"B","R","E","A","K">>) \/ Contains(Upper(time_str), <<"L","U","N","C","H">>)
        THEN <<>>
        ELSE IF Len(time_parts) = 2 /\ Contains(start, <<":">>) /\ Contains(end, <<":">>)
             THEN <<start, end>>
             ELSE <<>>

(* ------------------------------------------------------------------ *)
(* routers/timetable.py: subjects                                      *)
(* ------------------------------------------------------------------ *)

SubjectNames ==
    { <<"E","n","g","l","i","s","h">>, <<"M","a","t","h","s">>, <<"M","a","t","h","e","m","a","t","i","c","s">>, <<"S","c","i","e","n","c","e">>, <<"S","o","c","i","a","l"," ","S","t","u","d","i","e","s">>,
      <<"H","i","n","d","i">>, <<"C","o","-","C","u","r","r","i","c","u","l","a","r">>, <<"R","e","a","d","i","n","g">>, <<"A","r","t">>, <<"M","u","s","i","c">>, <<"D","a","n","c","e">>,
      <<"P","h","y","s","i","c","a","l"," ","E","d","u","c","a","t","i","o","n">>, <<"C","o","m","p","u","t","e","r"," ","S","c","i","e","n","c","e">>, <<"E","V","S">> }

\* a subject mapping is a sequence of <<teacher name, subject>> pairs with
\* distinct names (the dict of parse_subject_mapping, in insertion order)
MappingHas(mapping, name) == \E k \in 1..Len(mapping) : mapping[k][1] = name
MappingGet(mapping, name) == mapping[CHOOSE k \in 1..Len(mapping) : mapping[k][1] = name][2]
MappingPut(mapping, name, subject) ==
    IF MappingHas(mapping, name)
    THEN [k \in 1..Len(mapping) |->
             IF mapping[k][1] = name THEN <<name, subject>> ELSE mapping[k]]
    ELSE Append(mapping, <<name, subject>>)

NRows(grid) == Len(grid)
NCols(grid) == IF grid = <<>> THEN 0 ELSE Len(grid[1])

\* the scan of parse_subject_mapping from cell k (row-major, k = 0 first)
RECURSIVE SubjectScan(_, _, _, _)
SubjectScan(grid, k, current_subject, mapping) ==
    IF k >= NRows(grid) * NCols(grid) THEN mapping
    ELSE LET cell_value == Strip(StrOf(grid[(k \div NCols(grid)) + 1][(k % NCols(grid)) + 1]))
         IN  IF cell_value = <<>> \/ cell_value = <<"n","a","n">>
             THEN SubjectScan(grid, k + 1, current_subject, mapping)
             ELSE IF cell_value \in SubjectNames
             THEN SubjectScan(grid, k + 1, cell_value, mapping)
             ELSE IF /\ current_subject # <<>>
                     /\ \A d \in 1..Len(WeekdayNames) : ~Contains(cell_value, WeekdayNames[d])
             THEN SubjectScan(grid, k + 1, current_subject,
                              MappingPut(mapping, cell_value, current_subject))
             ELSE SubjectScan(grid, k + 1, current_subject, mapping)

parse_subject_mapping(grid) == SubjectScan(grid, 0, <<>>, <<>>)

CoCurricularKeywords ==
    { <<"D","A","N","C","E">>, <<"D","A","N">>, <<"A","R","T">>, <<"M","U","S","I","C">>, <<"B","A","N","D">>, <<"C","A","C","A">>, <<"P","E">>, <<"P","H","Y","S","I","C","A","L">> }
EnglishClasses == { <<"2","A">>, <<"2","B">>, <<"2","C">>, <<"5","B">>, <<"5","A">> }

\* re.sub(r'\([^)]*\)', '', s), scanning from i
RECURSIVE RemoveBareParens(_, _)
RemoveBareParens(s, i) ==
    IF i > Len(s) THEN <<>>
    ELSE LET c == FirstIndexFrom(s, ")", i + 1)
         IN  IF s[i] = "(" /\ c > 0
             THEN RemoveBareParens(s, c + 1)
             ELSE <<s[i]>> \o RemoveBareParens(s, i + 1)

get_subject_from_mapping_or_class(teacher_name, class_name_raw, subject_mapping) ==
    LET class_name == Strip(Upper(class_name_raw))
        clean_class == Strip(RemoveBareParens(class_name, 1))
    IN  IF MappingHas(subject_mapping, teacher_name)
        THEN MappingGet(subject_mapping, teacher_name)
        ELSE IF \E x \in CoCurricularKeywords : Contains(class_name, x)
        THEN <<"C","o","-","C","u","r","r","i","c","u","l","a","r">>
        ELSE IF class_name = <<"R","E","A","D","I","N","G">> \/ Contains(class_name, <<"L","I","B","R","A","R","Y">>)
        THEN <<"R","e","a","d","i","n","g">>
        ELSE IF clean_class \in EnglishClasses
        THEN <<"E","n","g","l","i","s","h">>
        ELSE IF \/ StartsWith(clean_class, <<"6">>)
                \/ StartsWith(clean_class, <<"3">>)
                \/ StartsWith(clean_class, <<"4">>)
        THEN <<"M","a","t","h","s">>
        ELSE <<"M","i","s","c","e","l","l","a","n","e","o","u","s">>

(* ------------------------------------------------------------------ *)
(* routers/absence.py: the name-to-email rule of the absence report    *)
(* ------------------------------------------------------------------ *)

\* f"{data.teacher_name.lower().replace(' ', '')}@school.edu"
AbsenceEmail(teacher_name) == DropChars(Lower(teacher_name), {" "}) \o EmailDomain

(* ------------------------------------------------------------------ *)
(* routers/timetable.py: structural discovery over the raw grid        *)
(* A grid is a sequence of rows of equal length; rows and columns are  *)
(* numbered from 1 (the source's iloc indices plus one).               *)
(* ------------------------------------------------------------------ *)

CellText(grid, r, c) == Strip(StrOf(grid[r][c]))

Min(a, b) == IF a <= b THEN a ELSE b

\* <<weekday_row, monday_col>>, or <<>> for None
find_weekday_row(grid, start_row, search_range) ==
    LET last_row == Min(start_row + search_range - 1, NRows(grid))
        IsAnchor(r, c) ==
            /\ CellText(grid, r, c) = <<"M","o","n","d","a","y">>
            /\ c + 4 <= NCols(grid)
            /\ \E i \in 1..4 : CellText(grid, r, c + i) = <<"T","u","e","s","d","a","y">>
        Before(r1, c1, r2, c2) == r1 < r2 \/ (r1 = r2 /\ c1 < c2)
        Anchors == {rc \in (start_row..last_row) \X (1..NCols(grid)) : IsAnchor(rc[1], rc[2])}
    IN  IF Anchors = {} THEN <<>>
        ELSE CHOOSE rc \in Anchors :
                 \A o \in Anchors : o = rc \/ Before(rc[1], rc[2], o[1], o[2])

HeaderSearchRange == 3

\* the discovery loop of parse_teacher_timetables from cell k (row-major)
RECURSIVE DiscoverFrom(_, _)
DiscoverFrom(grid, k) ==
    IF k >= NRows(grid) * NCols(grid) THEN <<>>
    ELSE LET row_idx == (k \div NCols(grid)) + 1
             col_idx == (k % NCols(grid)) + 1
             cell_value == CellText(grid, row_idx, col_idx)
             weekday_info == find_weekday_row(grid, row_idx + 1, HeaderSearchRange)
             teacher_name == clean_teacher_name(cell_value)
             found == /\ is_teacher_name_cell(cell_value)
                      /\ weekday_info # <<>>
                      /\ teacher_name # <<>>
                      /\ weekday_info[2] - 1 >= 1
         IN  (IF found
              THEN << [ name |-> teacher_name,
                        header_row |-> row_idx,
                        weekday_row |-> weekday_info[1],
                        time_col |-> weekday_info[2] - 1,
                        monday_col |-> weekday_info[2] ] >>
              ELSE <<>>) \o DiscoverFrom(grid, k + 1)

teacher_blocks(grid) == DiscoverFrom(grid, 0)

\* the first row past the data rows of block b: the header row of the first
\* discovered block below b's header, or the end of the grid
end_row(grid, blocks, b) ==
    IF \E k \in 1..Len(blocks) : blocks[k].header_row > blocks[b].header_row
    THEN blocks[CHOOSE k \in 1..Len(blocks) :
                    /\ blocks[k].header_row > blocks[b].header_row
                    /\ \A m \in 1..(k - 1) : blocks[m].header_row <= blocks[b].header_row
               ].header_row
    ELSE NRows(grid) + 1

\* is_free as the entry constructor of parse_teacher_timetables sets it
EntryIsFree(class_name_raw) == FALSE

\* the entry of one weekday cell of a data row, as a sequence of 0 or 1 entries
CellEntry(grid, block, mapping, row_idx, day_idx, slot) ==
    LET col_idx == block.monday_col + day_idx - 1
        class_name_raw == CellText(grid, row_idx, col_idx)
    IN  IF col_idx > NCols(grid) THEN <<>>
        ELSE IF grid[row_idx][col_idx] = NaN \/ class_name_raw = <<>> THEN <<>>
        ELSE IF Contains(Upper(class_name_raw), <<"B","R","E","A","K">>) THEN <<>>
        ELSE << [ day_of_week |-> WeekdayNames[day_idx],
                  start_time |-> slot[1],
                  end_time |-> slot[2],
                  class_name |-> class_name_raw,
                  subject |-> get_subject_from_mapping_or_class(block.name, class_name_raw, mapping),
                  is_free |-> EntryIsFree(class_name_raw) ] >>

RECURSIVE RowEntries(_, _, _, _, _, _)
RowEntries(grid, block, mapping, row_idx, day_idx, slot) ==
    IF day_idx > Len(WeekdayNames) THEN <<>>
    ELSE CellEntry(grid, block, mapping, row_idx, day_idx, slot)
            \o RowEntries(grid, block, mapping, row_idx, day_idx + 1, slot)

\* new_entries of a block: its data rows from row_idx up to last_row
RECURSIVE new_entries(_, _, _, _, _)
new_entries(grid, block, mapping, row_idx, last_row) ==
    IF row_idx > last_row THEN <<>>
    ELSE LET time_cell == grid[row_idx][block.time_col]
             time_str == Strip(StrOf(time_cell))
             time_parts == parse_time_slot(time_str)
             skip == \/ time_cell = NaN
                     \/ time_str = <<>>
                     \/ Contains(Upper(time_str), <<"B","R","E","A","K">>)
                     \/ time_parts = <<>>
         IN  (IF skip THEN <<>>
              ELSE RowEntries(grid, block, mapping, row_idx, 1, time_parts))
                \o new_entries(grid, block, mapping, row_idx + 1, last_row)

\* what parse_teacher_timetables computes from the file alone: per discovered
\* block, the cleaned name, the synthesised email and the block's new entries
ParseGrid(grid) ==
    LET blocks == teacher_blocks(grid)
        mapping == parse_subject_mapping(grid)
    IN  [ blocks |->
            [b \in 1..Len(blocks) |->
                [ name |-> blocks[b].name,
                  email |-> generate_valid_email(blocks[b].name),
                  entries |-> new_entries(grid, blocks[b], mapping,
                                          blocks[b].weekday_row + 1,
                                          end_row(grid, blocks, b) - 1) ]],
          subject_mappings |-> Len(mapping) ]

(* ------------------------------------------------------------------ *)
(* models.py: the tables.  A row's id is its index in its table.       *)
(*   teachers:             [name, email, sub_workload]                 *)
(*   timetable:            [teacher_id, day_of_week, start_time,       *)
(*                          end_time, class_name, subject, is_free]    *)
(*   absence_log:          [absent_teacher_id, date, start_time,       *)
(*                          end_time, status, reason]                  *)
(*   substitution_history: [absence_id, substitute_id, class_name,     *)
(*                          subject]                                   *)
(* ------------------------------------------------------------------ *)

EmptyStore ==
    [ teachers |-> <<>>, timetable |-> <<>>,
      absence_log |-> <<>>, substitution_history |-> <<>> ]

\* db.query(Teacher).filter(Teacher.email == email).first(): the id, 0 for None
TeacherByEmail(store, email) ==
    IF \E t \in 1..Len(store.teachers) : store.teachers[t].email = email
    THEN CHOOSE t \in 1..Len(store.teachers) :
             /\ store.teachers[t].email = email
             /\ \A u \in 1..(t - 1) : store.teachers[u].email # email
    ELSE 0

(* ------------------------------------------------------------------ *)
(* routers/absence.py: find_substitute                                 *)
(* ------------------------------------------------------------------ *)

MAX_SUB_WORKLOAD_PER_WEEK == 5

\* the orders in which a query without ORDER BY may return n rows
RowOrders(n) == {o \in [1..n -> 1..n] : \A i, j \in 1..n : o[i] = o[j] => i = j}

\* variant for sensitivity analysis: the pool keeps the absent teacher
CandidatesWithAbsent(order, absent_id) == order

\* db.query(Teacher).filter(Teacher.id != absent_teacher.id).all(), the rows
\* coming back in the order `order`
Candidates(order, absent_id) ==
    LET NotAbsent(t) == t # absent_id
    IN  SelectSeq(order, NotAbsent)

\* variant for sensitivity analysis: rows marked is_free do not occupy a slot
SlotIsFreeOrMarkedFree(store, t, day, start, end) ==
    ~\E k \in 1..Len(store.timetable) :
        /\ store.timetable[k].teacher_id = t
        /\ store.timetable[k].day_of_week = day
        /\ store.timetable[k].start_time = start
        /\ store.timetable[k].end_time = end
        /\ store.timetable[k].is_free = FALSE

\* the availability query: no timetable row of the teacher at (day, start, end)
SlotIsFree(store, t, day, start, end) ==
    ~\E k \in 1..Len(store.timetable) :
        /\ store.timetable[k].teacher_id = t
        /\ store.timetable[k].day_of_week = day
        /\ store.timetable[k].start_time = start
        /\ store.timetable[k].end_time = end

\* the qualification query: some timetable row of the teacher has the subject
HasTaught(store, t, subject) ==
    \E k \in 1..Len(store.timetable) :
        /\ store.timetable[k].teacher_id = t
        /\ store.timetable[k].subject = subject

\* variant for sensitivity analysis: a teacher at the cap still qualifies
UpToCap(store, t) == store.teachers[t].sub_workload <= MAX_SUB_WORKLOAD_PER_WEEK

\* substitute.sub_workload < MAX_SUB_WORKLOAD_PER_WEEK
UnderCap(store, t) == store.teachers[t].sub_workload < MAX_SUB_WORKLOAD_PER_WEEK

\* list.sort(key=lambda t: t.sub_workload): stable, ascending
RECURSIVE SortByWorkload(_, _)
SortByWorkload(store, ts) ==
    IF ts = <<>> THEN <<>>
    ELSE LET i == CHOOSE i \in 1..Len(ts) :
                     /\ \A j \in 1..Len(ts) :
                            store.teachers[ts[i]].sub_workload <= store.teachers[ts[j]].sub_workload
                     /\ \A j \in 1..(i - 1) :
                            store.teachers[ts[j]].sub_workload # store.teachers[ts[i]].sub_workload
         IN  <<ts[i]>> \o SortByWorkload(store, SubSeq(ts, 1, i - 1) \o SubSeq(ts, i + 1, Len(ts)))

\* variant for sensitivity analysis: priority 1 is skipped
find_substitute_any(store, order, absent_id, day, start, end, subject) ==
    LET candidates == Candidates(order, absent_id)
        IsFree(t) == SlotIsFree(store, t, day, start, end)
        available_candidates == SortByWorkload(store, SelectSeq(candidates, IsFree))
        AnyAvailable(t) == UnderCap(store, t)
        any_available_subs == SelectSeq(available_candidates, AnyAvailable)
    IN  IF any_available_subs # <<>> THEN any_available_subs[1] ELSE 0

\* the teacher id returned, 0 for None
find_substitute(store, order, absent_id, day, start, end, subject) ==
    LET candidates == Candidates(order, absent_id)
        IsFree(t) == SlotIsFree(store, t, day, start, end)
        available_candidates == SortByWorkload(store, SelectSeq(candidates, IsFree))
        SameSubject(t) == UnderCap(store, t) /\ HasTaught(store, t, subject)
        same_subject_subs == SelectSeq(available_candidates, SameSubject)
        AnyAvailable(t) == UnderCap(store, t)
        any_available_subs == SelectSeq(available_candidates, AnyAvailable)
    IN  IF available_candidates = <<>> THEN 0
        ELSE IF same_subject_subs # <<>> THEN same_subject_subs[1]
        ELSE IF any_available_subs # <<>> THEN any_available_subs[1]
        ELSE 0

(* ------------------------------------------------------------------ *)
(* Uploaded files.  Every grid has a time column followed by the five  *)
(* weekday columns; teacher blocks are stacked vertically.             *)
(* ------------------------------------------------------------------ *)

HeaderRow(cell) == <<cell, NaN, NaN, NaN, NaN, NaN>>
WeekdayRow == <<NaN, <<"M","o","n","d","a","y">>, <<"T","u","e","s","d","a","y">>, <<"W","e","d","n","e","s","d","a","y">>, <<"T","h","u","r","s","d","a","y">>, <<"F","r","i","d","a","y">>>>
DataRow(time, mon, tue) == <<time, mon, tue, NaN, NaN, NaN>>

RowA == DataRow(<<"0","9",":","0","0"," ","-"," ","0","9",":","4","0">>, <<"3","A">>, <<"2","B">>)
RowB == DataRow(<<"0","9",":","4","0"," ","-"," ","1","0",":","2","0">>, <<"R","E","A","D","I","N","G">>, <<"3","A">>)
\* the slot of RowA once more, written with the decimal-time artifact
RowC == DataRow(<<"0","9",".","0","0"," ","-"," ","0","9",".","4","0">>, <<"2","B">>, NaN)
RowL == DataRow(<<"L","U","N","C","H"," ","B","R","E","A","K">>, <<"L","U","N","C","H"," ","B","R","E","A","K">>, <<"L","U","N","C","H"," ","B","R","E","A","K">>)

Block(cell, rows) == <<HeaderRow(cell), WeekdayRow>> \o rows

BlockAnn == Block(<<"A","n","n"," ","L","e","e">>, <<RowA, RowB>>)
BlockBob == Block(<<"B","o","b"," ","R","a","y">>, <<RowB>>)
BlockDi == Block(<<"D","i"," ","O","'","R","o","y">>, <<RowA>>)
BlockAnnHrt == Block(<<"H","R","T"," ","A","n","n"," ","L","e","e"," ","-"," ","3","A">>, <<RowA>>)
BlockAnnTwice == Block(<<"A","n","n"," ","L","e","e">>, <<RowA, RowL, RowC>>)
BlockHrtOnly == Block(<<"H","R","T"," ","-"," ","3","A">>, <<RowA>>)
BlockBobEmpty == Block(<<"B","o","b"," ","R","a","y">>, <<RowL>>)

\* [readable |-> FALSE]: neither read_excel nor read_csv can read the bytes
Files ==
    << [readable |-> TRUE, grid |-> BlockAnn \o BlockBob],
       [readable |-> TRUE, grid |-> BlockAnn \o BlockBob \o BlockDi],
       [readable |-> TRUE, grid |-> BlockAnnTwice \o BlockBob],
       [readable |-> TRUE, grid |-> BlockAnn \o BlockAnnHrt],
       [readable |-> TRUE, grid |-> BlockBobEmpty \o BlockAnn],
       [readable |-> TRUE, grid |-> BlockHrtOnly],
       [readable |-> FALSE, grid |-> <<>>] >>

\* what the parser makes of each file
ParseFiles == [f \in 1..Len(Files) |-> ParseGrid(Files[f].grid)]

(* ------------------------------------------------------------------ *)
(* Requests                                                            *)
(* ------------------------------------------------------------------ *)

\* date.strftime('%A'); dates are day numbers, day 0 a Monday
WeekNames == WeekdayNames \o <<<<"S","a","t","u","r","d","a","y">>, <<"S","u","n","d","a","y">>>>
WeekdayOf(date) == WeekNames[(date % 7) + 1]

\* None and '' are both the empty text: the report only tests `not reason`
NoReason == <<>>
NotFoundText == <<"N","o","t"," ","F","o","u","n","d">>

Dates == {0, 1}
\* the (status, reason) pairs a client sends with a report
StatusReasons ==
    { <<<<"A","b","s","e","n","t">>, NoReason>>, <<<<"B","u","s","y">>, NoReason>>,
      <<<<"B","u","s","y">>, <<"j","u","r","y">>>>, <<<<"L","e","a","v","e">>, NoReason>> }
UnknownName == <<"Z","e","d"," ","P","o","e">>

MaxRequests == 2

VARIABLES
    db,     \* the committed tables
    sess,   \* the tables as the open session's transaction sees them
    pc,     \* "idle", or the handler that is running: "report", "upload";
            \* "notify": the report handler is inside send_substitution_notification
            \* ("select", "selected": before and after a direct selector call)
    req,    \* the running handler's local variables (substitute: 0 for None)
    resp,   \* the last request and its response
    sent,   \* the notifications handed to send_substitution_notification
    sel,    \* the last direct call of find_substitute and its result
    nReq,   \* the number of requests received
    parsed  \* ParseFiles, computed once: the parser is a function of the file alone

vars == <<db, sess, pc, req, resp, sent, sel, nReq, parsed>>

NoReq == [op |-> "none"]
NoResp == [op |-> "none", code |-> 0]
NoSel == [called |-> FALSE]

Init ==
    /\ db = EmptyStore
    /\ sess = EmptyStore
    /\ pc = "idle"
    /\ req = NoReq
    /\ resp = NoResp
    /\ sent = <<>>
    /\ sel = NoSel
    /\ nReq = 0
    /\ parsed = ParseFiles

(* ------------------------------------------------------------------ *)
(* database.py: the session                                            *)
(* ------------------------------------------------------------------ *)

\* db.commit(): the transaction's view becomes the committed tables
Commit(committed, session) == session
\* variant for sensitivity analysis: what the session did is kept
RollbackKeeps(committed, session) == session

\* variant for sensitivity analysis: queries answer from the committed rows
CommittedView(committed, session) == committed

\* what a query of the session reads: the committed rows with the session's
\* own flushed rows and its loaded objects' attributes as it changed them
SessionView(committed, session) == session

\* db.rollback(), and db.close() of get_db with a transaction still open:
\* what the session did is discarded
Rollback(committed, session) == committed

(* ------------------------------------------------------------------ *)
(* routers/timetable.py: upload_master_timetable,                      *)
(* parse_teacher_timetables                                            *)
(* ------------------------------------------------------------------ *)

\* the file name is missing or has no accepted extension: rejected before
\* the file is read
UploadRejected ==
    /\ pc = "idle"
    /\ nReq < MaxRequests
    /\ nReq' = nReq + 1
    /\ resp' = [op |-> "upload", code |-> 400]
    /\ UNCHANGED <<db, sess, pc, req, sent, sel, parsed>>

\* variant for sensitivity analysis: a teacher found again starts afresh
UpsertTeacherReset(store, name, email) ==
    IF TeacherByEmail(store, email) # 0
    THEN [store EXCEPT !.teachers[TeacherByEmail(store, email)].sub_workload = 0]
    ELSE [store EXCEPT !.teachers =
             Append(@, [name |-> name, email |-> email, sub_workload |-> 0])]

\* the find-or-create of a block's teacher, flushed at once
UpsertTeacher(store, name, email) ==
    IF TeacherByEmail(store, email) # 0 THEN store
    ELSE [store EXCEPT !.teachers =
             Append(@, [name |-> name, email |-> email, sub_workload |-> 0])]

\* db.add_all(new_entries) of a block, for the teacher with id teacher_id
AddEntries(store, teacher_id, entries) ==
    [store EXCEPT !.timetable = @ \o
        [k \in 1..Len(entries) |->
            [ teacher_id |-> teacher_id,
              day_of_week |-> entries[k].day_of_week,
              start_time |-> entries[k].start_time,
              end_time |-> entries[k].end_time,
              class_name |-> entries[k].class_name,
              subject |-> entries[k].subject,
              is_free |-> entries[k].is_free ]]]

\* the file is read and its blocks are discovered; with no block (or an
\* unreadable file) ValueError is raised and the handler rolls back, else
\* every timetable row is deleted and the block loop starts
UploadBegin(f) ==
    /\ pc = "idle"
    /\ nReq < MaxRequests
    /\ nReq' = nReq + 1
    /\ IF ~Files[f].readable \/ parsed[f].blocks = <<>>
       THEN /\ sess' = Rollback(db, sess)
            /\ resp' = [op |-> "upload", code |-> 500, file |-> f]
            /\ UNCHANGED <<db, pc, req, sent, sel, parsed>>
       ELSE /\ sess' = [sess EXCEPT !.timetable = <<>>]
            /\ pc' = "upload"
            /\ req' = [op |-> "upload", file |-> f, i |-> 1,
                       teachers_processed |-> 0, total_entries |-> 0]
            /\ UNCHANGED <<db, resp, sent, sel, parsed>>

\* one iteration of `for block in teacher_blocks`
UploadBlock ==
    /\ pc = "upload"
    /\ req.i <= Len(parsed[req.file].blocks)
    /\ LET block == parsed[req.file].blocks[req.i]
           with_teacher == UpsertTeacher(sess, block.name, block.email)
           teacher_id == TeacherByEmail(with_teacher, block.email)
       IN  /\ sess' = IF block.entries # <<>>
                      THEN AddEntries(with_teacher, teacher_id, block.entries)
                      ELSE with_teacher
           /\ req' = [req EXCEPT
                        !.i = @ + 1,
                        !.teachers_processed = IF block.entries # <<>> THEN @ + 1 ELSE @,
                        !.total_entries = @ + Len(block.entries)]
    /\ UNCHANGED <<db, pc, resp, sent, sel, nReq, parsed>>

\* db.commit() after the last block, and the 201 response
UploadCommit ==
    /\ pc = "upload"
    /\ req.i > Len(parsed[req.file].blocks)
    /\ db' = Commit(db, sess)
    /\ sess' = Commit(db, sess)
    /\ pc' = "idle"
    /\ req' = NoReq
    /\ resp' = [op |-> "upload", code |-> 201, file |-> req.file,
                teachers_processed |-> req.teachers_processed,
                total_entries |-> req.total_entries,
                subject_mappings |-> parsed[req.file].subject_mappings]
    /\ UNCHANGED <<sent, sel, nReq, parsed>>

\* variant for sensitivity analysis: the failed call's writes are committed
UploadFailCommits ==
    /\ pc = "upload"
    /\ db' = Commit(db, sess)
    /\ pc' = "idle"
    /\ req' = NoReq
    /\ resp' = [op |-> "upload", code |-> 500, file |-> req.file]
    /\ UNCHANGED <<sess, sent, sel, nReq, parsed>>

\* an exception anywhere between the delete and the commit: the handler's
\* `except Exception` rolls back and answers 500
UploadFail ==
    /\ pc = "upload"
    /\ sess' = Rollback(db, sess)
    /\ pc' = "idle"
    /\ req' = NoReq
    /\ resp' = [op |-> "upload", code |-> 500, file |-> req.file]
    /\ UNCHANGED <<db, sent, sel, nReq, parsed>>

(* ------------------------------------------------------------------ *)
(* routers/absence.py: report_full_day_absence                         *)
(* ------------------------------------------------------------------ *)

\* variant for sensitivity analysis: the weekday is not part of the filter
scheduled_classes_any_day(store, teacher_id, weekday) ==
    LET Wanted(k) == /\ store.timetable[k].teacher_id = teacher_id
                     /\ store.timetable[k].is_free = FALSE
    IN  SelectSeq([k \in 1..Len(store.timetable) |-> k], Wanted)

\* the indices of the absent teacher's timetable rows on the weekday with
\* is_free == False, in the table's order
scheduled_classes(store, teacher_id, weekday) ==
    LET Wanted(k) == /\ store.timetable[k].teacher_id = teacher_id
                     /\ store.timetable[k].day_of_week = weekday
                     /\ store.timetable[k].is_free = FALSE
    IN  SelectSeq([k \in 1..Len(store.timetable) |-> k], Wanted)

\* .all() of a query without ORDER BY: the rows in the order `order`
InOrder(rows, order) == [i \in 1..Len(rows) |-> rows[order[i]]]

\* variant for sensitivity analysis: a reason is never required
ValidateNameOnly(store, data) ==
    IF TeacherByEmail(store, AbsenceEmail(data.teacher_name)) = 0 THEN 404 ELSE 0

\* the outcome of the two checks that precede the queries for classes:
\* 404 (no teacher has the email), 400 (Busy without a reason), or 0
Validate(store, data) ==
    IF TeacherByEmail(store, AbsenceEmail(data.teacher_name)) = 0 THEN 404
    ELSE IF data.status = <<"B","u","s","y">> /\ data.reason = NoReason THEN 400
    ELSE 0

ReportBegin(data) ==
    /\ pc = "idle"
    /\ nReq < MaxRequests
    /\ nReq' = nReq + 1
    /\ LET code == Validate(sess, data)
           absent_teacher == TeacherByEmail(sess, AbsenceEmail(data.teacher_name))
           classes == scheduled_classes(sess, absent_teacher, WeekdayOf(data.absence_date))
       IN  IF code # 0
           THEN /\ resp' = [op |-> "report", code |-> code, data |-> data]
                /\ UNCHANGED <<db, sess, pc, req, sent, sel, parsed>>
           ELSE IF classes = <<>>
           THEN /\ resp' = [op |-> "report", code |-> 200, data |-> data]
                /\ UNCHANGED <<db, sess, pc, req, sent, sel, parsed>>
           ELSE /\ pc' = "report"
                /\ \E order \in RowOrders(Len(classes)) :
                      req' = [op |-> "report", data |-> data,
                              absent_teacher |-> absent_teacher,
                              classes |-> InOrder(classes, order), i |-> 1,
                              substitute |-> 0, substitution_results |-> <<>>]
                /\ UNCHANGED <<db, sess, resp, sent, sel, parsed>>

\* f"{class_entry.start_time}-{class_entry.end_time}"
PeriodText(class_entry) == class_entry.start_time \o <<"-">> \o class_entry.end_time

\* the AbsenceLog row of one period
NewAbsenceLog(data, absent_teacher, class_entry) ==
    [ absent_teacher_id |-> absent_teacher,
      date |-> data.absence_date,
      start_time |-> class_entry.start_time,
      end_time |-> class_entry.end_time,
      status |-> data.status,
      reason |-> data.reason ]

\* variant for sensitivity analysis: the history row without the increment
AssignWithoutWorkload(store, absence_id, substitute, class_entry) ==
    IF substitute = 0 THEN store
    ELSE [store EXCEPT
            !.substitution_history =
                Append(@, [ absence_id |-> absence_id,
                            substitute_id |-> substitute,
                            class_name |-> class_entry.class_name,
                            subject |-> class_entry.subject ])]

\* steps 5 and 6 for a period whose selector call returned `substitute`:
\* the SubstitutionHistory row and the workload increment (nothing for None)
Assign(store, absence_id, substitute, class_entry) ==
    IF substitute = 0 THEN store
    ELSE [store EXCEPT
            !.substitution_history =
                Append(@, [ absence_id |-> absence_id,
                            substitute_id |-> substitute,
                            class_name |-> class_entry.class_name,
                            subject |-> class_entry.subject ]),
            !.teachers[substitute].sub_workload = @ + 1]

\* step 7: the notifications handed to send_substitution_notification
Notify(store, data, absent_teacher, substitute, class_entry) ==
    IF substitute = 0 THEN <<>>
    ELSE << [ to |-> store.teachers[substitute].email,
              date |-> data.absence_date,
              day |-> WeekdayOf(data.absence_date),
              period |-> PeriodText(class_entry),
              class_name |-> class_entry.class_name,
              subject |-> class_entry.subject,
              absent_name |-> store.teachers[absent_teacher].name,
              substitute_name |-> store.teachers[substitute].name,
              reason |-> data.reason ] >>

\* one iteration of `for class_entry in scheduled_classes`
ReportPeriod ==
    /\ pc = "report"
    /\ req.i <= Len(req.classes)
    /\ \E order \in RowOrders(Len(sess.teachers)) :
        LET class_entry == sess.timetable[req.classes[req.i]]
            logged == [sess EXCEPT !.absence_log =
                          Append(@, NewAbsenceLog(req.data, req.absent_teacher, class_entry))]
            absence_id == Len(logged.absence_log)
            substitute == find_substitute(SessionView(db, logged), order,
                                          req.absent_teacher,
                                          WeekdayOf(req.data.absence_date),
                                          class_entry.start_time, class_entry.end_time,
                                          class_entry.subject)
            record == [ period |-> PeriodText(class_entry),
                        class |-> class_entry.class_name,
                        subject |-> class_entry.subject,
                        substitute |-> IF substitute = 0 THEN NotFoundText
                                       ELSE logged.teachers[substitute].name ]
        IN  /\ sess' = Assign(logged, absence_id, substitute, class_entry)
            /\ sent' = sent \o Notify(logged, req.data, req.absent_teacher, substitute, class_entry)
            /\ req' = [req EXCEPT !.i = @ + 1,
                                  !.substitute = substitute,
                                  !.substitution_results = Append(@, record)]
            /\ pc' = IF substitute # 0 THEN "notify" ELSE "report"
    /\ UNCHANGED <<db, resp, sel, nReq, parsed>>

\* send_substitution_notification returns: the delivery attempt is over,
\* delivered (True) or failed (False, the SMTP exception caught and printed);
\* the handler discards the value and goes on with the loop
NotifyReturn ==
    /\ pc = "notify"
    /\ \E delivered \in BOOLEAN : pc' = "report"
    /\ UNCHANGED <<db, sess, req, resp, sent, sel, nReq, parsed>>

\* db.commit() after the last period, and the response with its
\* "substitutions" (the answer for a day without classes has a message only)
ReportCommit ==
    /\ pc = "report"
    /\ req.i > Len(req.classes)
    /\ db' = Commit(db, sess)
    /\ sess' = Commit(db, sess)
    /\ pc' = "idle"
    /\ req' = NoReq
    /\ resp' = [op |-> "report", code |-> 200, data |-> req.data,
                substitutions |-> req.substitution_results]
    /\ UNCHANGED <<sent, sel, nReq, parsed>>

\* an exception in the loop or in the commit: nothing in the handler catches
\* it, and get_db closes the session with its transaction uncommitted
ReportFail ==
    /\ pc = "report"
    /\ sess' = Rollback(db, sess)
    /\ pc' = "idle"
    /\ req' = NoReq
    /\ resp' = [op |-> "report", code |-> 500, data |-> req.data]
    /\ UNCHANGED <<db, sent, sel, nReq, parsed>>

ReportInputs(store) ==
    { [ teacher_name |-> n, absence_date |-> d, status |-> sr[1], reason |-> sr[2] ] :
        n \in {store.teachers[t].name : t \in 1..Len(store.teachers)} \cup {UnknownName},
        d \in Dates,
        sr \in StatusReasons }

Next ==
    \/ UploadRejected
    \/ \E f \in 1..Len(Files) : UploadBegin(f)
    \/ UploadBlock
    \/ UploadCommit
    \/ UploadFail
    \/ \E data \in ReportInputs(db) : ReportBegin(data)
    \/ ReportPeriod
    \/ NotifyReturn
    \/ ReportCommit
    \/ ReportFail

Spec == Init /\ [][Next]_vars

(* ------------------------------------------------------------------ *)
(* find_substitute called directly on an arbitrary store               *)
(* ------------------------------------------------------------------ *)

SelTeachers == 3

Slot1 == <<<<"0","9",":","0","0">>, <<"0","9",":","4","0">>>>
Slot2 == <<<<"0","9",":","4","0">>, <<"1","0",":","2","0">>>>

SelEntry(day, slot, class_name, subject, is_free) ==
    [ day_of_week |-> day, start_time |-> slot[1], end_time |-> slot[2],
      class_name |-> class_name, subject |-> subject, is_free |-> is_free ]

\* a teacher's timetable: empty (a teacher registered through /teachers); a
\* class in the slot asked for; a row in that slot marked is_free (the schema
\* of models.py admits it); or classes at the same time on another day and on
\* the same day at another time
SelTimetables ==
    { <<>>,
      <<SelEntry(<<"M","o","n","d","a","y">>, Slot1, <<"3","A">>, <<"M","a","t","h","s">>, FALSE)>>,
      <<SelEntry(<<"M","o","n","d","a","y">>, Slot1, <<"R","E","A","D","I","N","G">>, <<"R","e","a","d","i","n","g">>, TRUE)>>,
      <<SelEntry(<<"T","u","e","s","d","a","y">>, Slot1, <<"3","A">>, <<"M","a","t","h","s">>, FALSE),
        SelEntry(<<"M","o","n","d","a","y">>, Slot2, <<"2","B">>, <<"E","n","g","l","i","s","h">>, FALSE)>> }

SelWorkloads ==
    {0, MAX_SUB_WORKLOAD_PER_WEEK - 1, MAX_SUB_WORKLOAD_PER_WEEK}

SelName(t) == <<"T", <<"1","2","3","4","5","6","7","8","9">>[t]>>

RECURSIVE SelTimetable(_, _, _)
SelTimetable(tt, t, n) ==
    IF t > n THEN <<>>
    ELSE AddEntries(EmptyStore, t, tt[t]).timetable \o SelTimetable(tt, t + 1, n)

SelStore(w, tt) ==
    [ teachers |-> [t \in 1..SelTeachers |->
                       [ name |-> SelName(t),
                         email |-> generate_valid_email(SelName(t)),
                         sub_workload |-> w[t] ]],
      timetable |-> SelTimetable(tt, 1, SelTeachers),
      absence_log |-> <<>>,
      substitution_history |-> <<>> ]

InitSelect ==
    /\ \E w \in [1..SelTeachers -> SelWorkloads], tt \in [1..SelTeachers -> SelTimetables] :
          /\ db = SelStore(w, tt)
          /\ sess = SelStore(w, tt)
    /\ pc = "select"
    /\ req = NoReq
    /\ resp = NoResp
    /\ sent = <<>>
    /\ sel = NoSel
    /\ nReq = 0
    /\ parsed = <<>>

Select(order, absent_id, day, slot, subject) ==
    /\ pc = "select"
    /\ pc' = "selected"
    /\ sel' = [ called |-> TRUE, absent_id |-> absent_id, day |-> day,
                start_time |-> slot[1], end_time |-> slot[2], subject |-> subject,
                result |-> find_substitute(db, order, absent_id, day,
                                           slot[1], slot[2], subject) ]
    /\ UNCHANGED <<db, sess, req, resp, sent, nReq, parsed>>

NextSelect ==
    /\ pc = "select"
    /\ \E order \in RowOrders(Len(db.teachers)), absent_id \in 1..Len(db.teachers),
          subject \in {<<"M","a","t","h","s">>, <<"E","n","g","l","i","s","h">>} :
           Select(order, absent_id, <<"M","o","n","d","a","y">>, Slot1, subject)

SpecSelect == InitSelect /\ [][NextSelect]_vars

(* ------------------------------------------------------------------ *)
(* The handlers started on a store that has been in use: a roster with *)
(* workloads up to the cap, each unit of workload with the AbsenceLog  *)
(* and SubstitutionHistory rows of the period it was earned in.        *)
(* ------------------------------------------------------------------ *)

RosterSize == 3

RosterNames == <<<<"A","n","n"," ","L","e","e">>, <<"B","o","b"," ","R","a","y">>, <<"C","y"," ","O","r","r">>, <<"D","e","e"," ","F","o","x">>, <<"E","v","e"," ","H","a","y">>>>

\* the first teacher has two classes on Monday (and has covered for nobody),
\* the second a class on Tuesday, the others were registered through
\* /teachers and have none
RosterEntries(t) ==
    IF t = 1 THEN <<SelEntry(<<"M","o","n","d","a","y">>, Slot1, <<"3","A">>, <<"M","a","t","h","s">>, FALSE),
                    SelEntry(<<"M","o","n","d","a","y">>, Slot2, <<"2","B">>, <<"E","n","g","l","i","s","h">>, FALSE)>>
    ELSE IF t = 2 THEN <<SelEntry(<<"T","u","e","s","d","a","y">>, Slot1, <<"3","A">>, <<"M","a","t","h","s">>, FALSE)>>
    ELSE <<>>

RECURSIVE RosterTimetable(_)
RosterTimetable(t) ==
    IF t > RosterSize THEN <<>>
    ELSE AddEntries(EmptyStore, t, RosterEntries(t)).timetable \o RosterTimetable(t + 1)

\* the k-th period teacher t covered: on the k-th Monday back for the first
\* teacher's 09:00 class, the first teacher herself on the Tuesday after it
\* for the second teacher's
PastAbsence(t, k) ==
    [ absent_teacher_id |-> IF t = 1 THEN 2 ELSE 1,
      date |-> IF t = 1 THEN 1 - 7 * k ELSE 0 - 7 * k,
      start_time |-> Slot1[1],
      end_time |-> Slot1[2],
      status |-> <<"A","b","s","e","n","t">>,
      reason |-> NoReason ]

RECURSIVE WithPastCover(_, _, _, _)
WithPastCover(store, w, t, k) ==
    IF t > RosterSize THEN store
    ELSE IF k > w[t] THEN WithPastCover(store, w, t + 1, 1)
    ELSE WithPastCover(
            [store EXCEPT
                !.absence_log = Append(@, PastAbsence(t, k)),
                !.substitution_history =
                    Append(@, [ absence_id |-> Len(store.absence_log) + 1,
                                substitute_id |-> t,
                                class_name |-> <<"3","A">>,
                                subject |-> <<"M","a","t","h","s">> ])],
            w, t, k + 1)

RosterStore(w) ==
    WithPastCover(
        [ teachers |-> [t \in 1..RosterSize |->
                           [ name |-> RosterNames[t],
                             email |-> generate_valid_email(RosterNames[t]),
                             sub_workload |-> w[t] ]],
          timetable |-> RosterTimetable(1),
          absence_log |-> <<>>,
          substitution_history |-> <<>> ],
        w, 1, 1)

InitRoster ==
    /\ \E w \in [1..RosterSize -> SelWorkloads] :
          /\ w[1] = 0
          /\ db = RosterStore(w)
          /\ sess = RosterStore(w)
    /\ pc = "idle"
    /\ req = NoReq
    /\ resp = NoResp
    /\ sent = <<>>
    /\ sel = NoSel
    /\ nReq = 0
    /\ parsed = ParseFiles

\* the files uploaded and the reports sent to the store in use: absences
\* on the Monday of day 0
RosterFiles == {1}
RosterReports(store) ==
    { [ teacher_name |-> store.teachers[t].name, absence_date |-> 0,
        status |-> <<"A","b","s","e","n","t">>, reason |-> NoReason ] :
        t \in 1..Len(store.teachers) }

NextRoster ==
    \/ \E f \in RosterFiles : UploadBegin(f)
    \/ UploadBlock
    \/ UploadCommit
    \/ UploadFail
    \/ \E data \in RosterReports(db) : ReportBegin(data)
    \/ ReportPeriod
    \/ NotifyReturn
    \/ ReportCommit
    \/ ReportFail

SpecRoster == InitRoster /\ [][NextRoster]_vars

(* ------------------------------------------------------------------ *)
(* The handlers started on a new term's store: nobody has covered yet, *)
(* and two teachers teach on the same Monday at different hours.       *)
(* ------------------------------------------------------------------ *)

\* the first teacher has Maths on Monday at 09:00 and English on Tuesday,
\* the second English on Monday at 09:40, the others no class
TermEntries(t) ==
    IF t = 1 THEN <<SelEntry(<<"M","o","n","d","a","y">>, Slot1, <<"3","A">>, <<"M","a","t","h","s">>, FALSE),
                    SelEntry(<<"T","u","e","s","d","a","y">>, Slot2, <<"2","B">>, <<"E","n","g","l","i","s","h">>, FALSE)>>
    ELSE IF t = 2 THEN <<SelEntry(<<"M","o","n","d","a","y">>, Slot2, <<"2","B">>, <<"E","n","g","l","i","s","h">>, FALSE)>>
    ELSE <<>>

RECURSIVE TermTimetable(_)
TermTimetable(t) ==
    IF t > RosterSize THEN <<>>
    ELSE AddEntries(EmptyStore, t, TermEntries(t)).timetable \o TermTimetable(t + 1)

TermStore ==
    [ teachers |-> [t \in 1..RosterSize |->
                       [ name |-> RosterNames[t],
                         email |-> generate_valid_email(RosterNames[t]),
                         sub_workload |-> 0 ]],
      timetable |-> TermTimetable(1),
      absence_log |-> <<>>,
      substitution_history |-> <<>> ]

InitTerm ==
    /\ db = TermStore
    /\ sess = TermStore
    /\ pc = "idle"
    /\ req = NoReq
    /\ resp = NoResp
    /\ sent = <<>>
    /\ sel = NoSel
    /\ nReq = 0
    /\ parsed = ParseFiles

SpecTerm == InitTerm /\ [][NextRoster]_vars

(* ------------------------------------------------------------------ *)
(* Reports handled at the same time by several server processes, each  *)
(* with a Session of its own on the one database.  create_engine sets  *)
(* no isolation level: a statement reads the rows committed when it    *)
(* runs (and the session's own), an UPDATE locks its row until the     *)
(* transaction ends, and an object the Session has loaded keeps the    *)
(* attribute values it was loaded with.                                *)
(* Here pc, req, resp and sess are indexed by the process; sess[p] is  *)
(*   [loaded, workload, dirty, locked, logs, history]                  *)
(* ------------------------------------------------------------------ *)

Sessions == 2

NewSession ==
    [ loaded |-> {},        \* the teachers whose objects the Session holds
      workload |-> <<>>,    \* their sub_workload attributes in memory
      dirty |-> {},         \* the teachers whose sub_workload it changed
      locked |-> {},        \* the teachers whose UPDATE it has flushed
      logs |-> <<>>,        \* the AbsenceLog rows it inserted
      history |-> <<>> ]    \* the SubstitutionHistory rows it added

InitConcurrent ==
    /\ \E w \in [1..RosterSize -> SelWorkloads] :
          /\ w[1] = 0
          /\ db = RosterStore(w)
    /\ sess = [p \in 1..Sessions |-> NewSession]
    /\ pc = [p \in 1..Sessions |-> "idle"]
    /\ req = [p \in 1..Sessions |-> NoReq]
    /\ resp = [p \in 1..Sessions |-> NoResp]
    /\ sent = <<>>
    /\ sel = NoSel
    /\ nReq = 0
    /\ parsed = <<>>

\* the Session loads the objects of the teachers in ts: one it holds already
\* keeps its attributes, the others get the committed values
Load(session, ts) ==
    [session EXCEPT
        !.loaded = @ \cup ts,
        !.workload = [t \in 1..Len(db.teachers) |->
                         IF t \in session.loaded THEN session.workload[t]
                         ELSE db.teachers[t].sub_workload]]

\* what the queries of process p's Session answer
ConcurrentView(session) ==
    [ teachers |-> [t \in 1..Len(db.teachers) |->
                       [db.teachers[t] EXCEPT !.sub_workload =
                           IF t \in session.loaded THEN session.workload[t] ELSE @]],
      timetable |-> db.timetable,
      absence_log |-> db.absence_log \o session.logs,
      substitution_history |-> db.substitution_history \o session.history ]

\* db.flush() and db.commit() emit the pending UPDATEs: each waits while
\* another transaction holds the lock of its row
CanFlush(p) ==
    \A q \in 1..Sessions : q # p => sess[q].locked \cap sess[p].dirty = {}

ConcurrentBegin(p, data) ==
    /\ pc[p] = "idle"
    /\ nReq' = nReq + 1
    /\ LET code == Validate(db, data)
           absent_teacher == TeacherByEmail(db, AbsenceEmail(data.teacher_name))
           classes == scheduled_classes(db, absent_teacher, WeekdayOf(data.absence_date))
       IN  IF code # 0
           THEN /\ resp' = [resp EXCEPT ![p] = [op |-> "report", code |-> code, data |-> data]]
                /\ pc' = [pc EXCEPT ![p] = "done"]
                /\ UNCHANGED <<db, sess, req, sent, sel, parsed>>
           ELSE IF classes = <<>>
           THEN /\ resp' = [resp EXCEPT ![p] = [op |-> "report", code |-> 200, data |-> data]]
                /\ pc' = [pc EXCEPT ![p] = "done"]
                /\ UNCHANGED <<db, sess, req, sent, sel, parsed>>
           ELSE /\ pc' = [pc EXCEPT ![p] = "report"]
                /\ \E order \in RowOrders(Len(classes)) :
                      req' = [req EXCEPT ![p] =
                                [op |-> "report", data |-> data,
                                 absent_teacher |-> absent_teacher,
                                 classes |-> InOrder(classes, order), i |-> 1,
                                 substitute |-> 0, substitution_results |-> <<>>]]
                /\ sess' = [sess EXCEPT ![p] = Load(NewSession, {absent_teacher})]
                /\ UNCHANGED <<db, resp, sent, sel, parsed>>

\* one iteration of the loop in process p: the flush, the selector's queries,
\* the history row, the increment in memory and the notification
ConcurrentPeriod(p) ==
    /\ pc[p] = "report"
    /\ req[p].i <= Len(req[p].classes)
    /\ CanFlush(p)
    /\ \E order \in RowOrders(Len(db.teachers)) :
        LET class_entry == db.timetable[req[p].classes[req[p].i]]
            flushed == [sess[p] EXCEPT
                          !.locked = @ \cup sess[p].dirty,
                          !.logs = Append(@, NewAbsenceLog(req[p].data, req[p].absent_teacher,
                                                          class_entry))]
            session == Load(flushed, 1..Len(db.teachers))
            view == ConcurrentView(session)
            absence_id == Len(view.absence_log)
            substitute == find_substitute(view, order, req[p].absent_teacher,
                                          WeekdayOf(req[p].data.absence_date),
                                          class_entry.start_time, class_entry.end_time,
                                          class_entry.subject)
            assigned == Assign(view, absence_id, substitute, class_entry)
            record == [ period |-> PeriodText(class_entry),
                        class |-> class_entry.class_name,
                        subject |-> class_entry.subject,
                        substitute |-> IF substitute = 0 THEN NotFoundText
                                       ELSE view.teachers[substitute].name ]
        IN  /\ sess' = [sess EXCEPT ![p] =
                          [session EXCEPT
                             !.workload = [t \in 1..Len(db.teachers) |->
                                              assigned.teachers[t].sub_workload],
                             !.dirty = IF substitute = 0 THEN @ ELSE @ \cup {substitute},
                             !.history = SubSeq(assigned.substitution_history,
                                                Len(db.substitution_history) + 1,
                                                Len(assigned.substitution_history))]]
            /\ sent' = sent \o Notify(view, req[p].data, req[p].absent_teacher,
                                      substitute, class_entry)
            /\ req' = [req EXCEPT ![p] =
                          [req[p] EXCEPT !.i = @ + 1,
                                         !.substitute = substitute,
                                         !.substitution_results = Append(@, record)]]
    /\ UNCHANGED <<db, pc, resp, sel, nReq, parsed>>

\* db.commit() of process p: its UPDATEs write the values its objects hold,
\* its rows are appended (their ids rebased on the committed tables)
ConcurrentCommit(p) ==
    /\ pc[p] = "report"
    /\ req[p].i > Len(req[p].classes)
    /\ CanFlush(p)
    /\ db' = [db EXCEPT
                !.teachers = [t \in 1..Len(db.teachers) |->
                                 IF t \in sess[p].dirty
                                 THEN [db.teachers[t] EXCEPT
                                          !.sub_workload = sess[p].workload[t]]
                                 ELSE db.teachers[t]],
                !.absence_log = @ \o sess[p].logs,
                !.substitution_history = @ \o sess[p].history]
    /\ sess' = [sess EXCEPT ![p] = NewSession]
    /\ pc' = [pc EXCEPT ![p] = "done"]
    /\ resp' = [resp EXCEPT ![p] = [op |-> "report", code |-> 200, data |-> req[p].data,
                                    substitutions |-> req[p].substitution_results]]
    /\ req' = [req EXCEPT ![p] = NoReq]
    /\ UNCHANGED <<sent, sel, nReq, parsed>>

\* an exception in process p (the database ending a deadlock among them):
\* get_db closes the Session, its transaction is rolled back
ConcurrentFail(p) ==
    /\ pc[p] = "report"
    /\ sess' = [sess EXCEPT ![p] = NewSession]
    /\ pc' = [pc EXCEPT ![p] = "done"]
    /\ resp' = [resp EXCEPT ![p] = [op |-> "report", code |-> 500, data |-> req[p].data]]
    /\ req' = [req EXCEPT ![p] = NoReq]
    /\ UNCHANGED <<db, sent, sel, nReq, parsed>>

NextConcurrent ==
    \E p \in 1..Sessions :
        \/ \E data \in RosterReports(db) : ConcurrentBegin(p, data)
        \/ ConcurrentPeriod(p)
        \/ ConcurrentCommit(p)
        \/ ConcurrentFail(p)

SpecConcurrent == InitConcurrent /\ [][NextConcurrent]_vars

(* ------------------------------------------------------------------ *)
(* The selector's contract, stated on the store and on the last call   *)
(* ------------------------------------------------------------------ *)

Workload(t) == db.teachers[t].sub_workload

\* the teacher has a timetable row at the slot of the last call, whatever
\* the row's is_free flag
BusyAtCall(t) ==
    \E k \in 1..Len(db.timetable) :
        /\ db.timetable[k].teacher_id = t
        /\ db.timetable[k].day_of_week = sel.day
        /\ db.timetable[k].start_time = sel.start_time
        /\ db.timetable[k].end_time = sel.end_time

\* the teacher has a timetable row, on any day and at any time, with the
\* subject of the last call
QualifiedForCall(t) ==
    \E k \in 1..Len(db.timetable) :
        /\ db.timetable[k].teacher_id = t
        /\ db.timetable[k].subject = sel.subject

\* the teachers other than the absent one with no row at the slot
AvailableForCall ==
    {t \in 1..Len(db.teachers) : t # sel.absent_id /\ ~BusyAtCall(t)}

\* the available teachers under the cap
PoolForCall == {t \in AvailableForCall : Workload(t) < MAX_SUB_WORKLOAD_PER_WEEK}

\* C1: whatever the store and the call, the teacher find_substitute returns
\* (when it returns one) is not the absent teacher.
C1_NeverAbsentTeacher ==
    sel.called => sel.result # sel.absent_id

\* a call that returned somebody although the absent teacher was free at the
\* slot, under the cap, qualified, and had strictly less workload than the
\* teacher returned
C1_Witness ==
    /\ sel.called
    /\ sel.result # 0
    /\ sel.result # sel.absent_id
    /\ ~BusyAtCall(sel.absent_id)
    /\ QualifiedForCall(sel.absent_id)
    /\ Workload(sel.absent_id) < Workload(sel.result)

\* C2: find_substitute never returns a teacher whose workload is at or above
\* the cap: when some available candidate is under the cap it returns a
\* teacher under the cap, and when none is it returns nobody.
C2_NeverAtOrAboveCap ==
    sel.called =>
        /\ sel.result # 0 => Workload(sel.result) < MAX_SUB_WORKLOAD_PER_WEEK
        /\ PoolForCall # {} => sel.result # 0
        /\ PoolForCall = {} => sel.result = 0

\* a call that returned nobody although candidates were available, all of
\* them exactly at the cap, one of them qualified
C2_Witness ==
    /\ sel.called
    /\ sel.result = 0
    /\ AvailableForCall # {}
    /\ PoolForCall = {}
    /\ \E t \in AvailableForCall :
           Workload(t) = MAX_SUB_WORKLOAD_PER_WEEK /\ QualifiedForCall(t)

\* C3: when the available teachers under the cap include one who has a row
\* with the requested subject and one who has none, find_substitute returns
\* a qualified one, even if an unqualified one has strictly less workload.
C3_PrefersQualified ==
    ( /\ sel.called
      /\ \E q \in PoolForCall : QualifiedForCall(q)
      /\ \E u \in PoolForCall : ~QualifiedForCall(u) )
    => ( sel.result \in PoolForCall /\ QualifiedForCall(sel.result) )

\* a call that returned a qualified teacher although an unqualified one in
\* the pool had strictly less workload
C3_Witness ==
    /\ sel.called
    /\ sel.result \in PoolForCall
    /\ QualifiedForCall(sel.result)
    /\ \E u \in PoolForCall :
           ~QualifiedForCall(u) /\ Workload(u) < Workload(sel.result)

\* C4: a teacher returned by find_substitute has no timetable row at exactly
\* the (day, start, end) of the call, whatever the row's is_free flag.
C4_NoEntryAtSlot ==
    (sel.called /\ sel.result # 0) => ~BusyAtCall(sel.result)

\* a call that returned somebody and passed over a teacher (not the absent
\* one) whose only row at the slot is marked is_free and whose workload is
\* strictly less than that of the teacher returned
C4_Witness ==
    /\ sel.called
    /\ sel.result # 0
    /\ ~BusyAtCall(sel.result)
    /\ \E t \in 1..Len(db.teachers) :
           /\ t # sel.absent_id
           /\ Workload(t) < Workload(sel.result)
           /\ \E k \in 1..Len(db.timetable) :
                  /\ db.timetable[k].teacher_id = t
                  /\ db.timetable[k].day_of_week = sel.day
                  /\ db.timetable[k].start_time = sel.start_time
                  /\ db.timetable[k].end_time = sel.end_time
                  /\ db.timetable[k].is_free

(* ------------------------------------------------------------------ *)
(* The coverage workflow's contract, stated on the steps of Spec       *)
(* ------------------------------------------------------------------ *)

\* the teacher an absence report's name resolves to, 0 when it resolves to none
ResolvedTeacher(data) ==
    LET email == AbsenceEmail(data.teacher_name)
        hits == {t \in 1..Len(db.teachers) : db.teachers[t].email = email}
    IN  IF hits = {} THEN 0 ELSE CHOOSE t \in hits : \A u \in hits : t <= u

\* the committed timetable rows of teacher t on the weekday of `date` that
\* are not marked is_free
ClassRows(t, date) ==
    {k \in 1..Len(db.timetable) :
        /\ db.timetable[k].teacher_id = t
        /\ db.timetable[k].day_of_week = WeekdayOf(date)
        /\ ~db.timetable[k].is_free}

FailsValidation(data) ==
    \/ ResolvedTeacher(data) = 0
    \/ data.status = <<"B","u","s","y">> /\ data.reason = NoReason

\* this step receives an absence report
ReportReceived ==
    /\ pc = "idle"
    /\ nReq' = nReq + 1
    /\ pc' = "report" \/ (pc' = "idle" /\ resp'.op = "report")
\* the report this step receives
ReceivedData == IF pc' = "report" THEN req'.data ELSE resp'.data

\* this step answers an absence report with success
ReportAnswered ==
    /\ pc' = "idle"
    /\ resp'.op = "report"
    /\ resp'.code = 200
    /\ pc = "report" \/ (pc = "idle" /\ nReq' = nReq + 1)

\* C5: a report that fails validation (its name resolves to no teacher, or
\* its status is Busy and it has no reason) is rejected with no database
\* write: the committed tables and the session are as before, the handler is
\* over, and nothing was sent.
C5_InvalidReportWritesNothing ==
    [][ (ReportReceived /\ FailsValidation(ReceivedData))
        => ( /\ db' = db
             /\ sess' = sess
             /\ sent' = sent
             /\ pc' = "idle"
             /\ resp'.code \in {400, 404} ) ]_vars

\* a Busy report without a reason was rejected although its teacher exists
\* and has classes on the weekday of the date
C5_Witness ==
    /\ pc = "idle"
    /\ resp.op = "report"
    /\ resp.code = 400
    /\ ResolvedTeacher(resp.data) # 0
    /\ ClassRows(ResolvedTeacher(resp.data), resp.data.absence_date) # {}
    /\ db.absence_log = <<>>

PeriodProcessed == pc = "report" /\ pc' \in {"report", "notify"} /\ req'.i = req.i + 1

\* C7: for each period processed, if the selector returned a substitute then
\* exactly one SubstitutionHistory row, linking the period's AbsenceLog row to
\* the substitute, is created and the substitute's workload rises by exactly
\* 1 (nobody else's changes); if the selector returned nobody then no
\* SubstitutionHistory row is created, no workload changes and no
\* notification is attempted.
C7_HistoryAndWorkloadPerPeriod ==
    [][ PeriodProcessed =>
        LET substitute == req'.substitute
            absence_id == Len(sess'.absence_log)
            h == Len(sess.substitution_history)
        IN  /\ absence_id = Len(sess.absence_log) + 1
            /\ Len(sess'.teachers) = Len(sess.teachers)
            /\ IF substitute # 0
               THEN /\ Len(sess'.substitution_history) = h + 1
                    /\ SubSeq(sess'.substitution_history, 1, h) = sess.substitution_history
                    /\ sess'.substitution_history[h + 1].absence_id = absence_id
                    /\ sess'.substitution_history[h + 1].substitute_id = substitute
                    /\ \A t \in 1..Len(sess.teachers) :
                          sess'.teachers[t].sub_workload =
                              sess.teachers[t].sub_workload + (IF t = substitute THEN 1 ELSE 0)
               ELSE /\ sess'.substitution_history = sess.substitution_history
                    /\ sess'.teachers = sess.teachers
                    /\ sent' = sent ]_vars

\* a report in which the first period got a substitute and the second period
\* got none
C7_Witness ==
    /\ pc = "report"
    /\ req.i = 3
    /\ req.substitution_results[1].substitute # NotFoundText
    /\ req.substitute = 0
    /\ Len(sess.substitution_history) = 1
    /\ Len(sess.absence_log) = 2

\* C8: while a report is being processed nothing is persisted, and when it
\* ends in an unexpected error before the commit the committed tables are as
\* they were before the call and the session keeps none of the report's
\* AbsenceLog rows, SubstitutionHistory rows or workload increments.
C8_FailedReportPersistsNothing ==
    [][ (pc \in {"report", "notify"} /\ ~ReportAnswered)
        => ( /\ db' = db
             /\ pc' = "idle" => (sess' = db /\ resp'.code = 500) ) ]_vars

\* a report failed after a period had been given a substitute (and the
\* substitute had been notified), and no row of it is in the tables
C8_Witness ==
    /\ pc = "idle"
    /\ resp.op = "report"
    /\ resp.code = 500
    /\ sent # <<>>
    /\ sess = db
    /\ db.absence_log = <<>>
    /\ db.substitution_history = <<>>
    /\ \A t \in 1..Len(db.teachers) : db.teachers[t].sub_workload = 0

(* ------------------------------------------------------------------ *)
(* Ingestion and the report's name lookup                              *)
(* ------------------------------------------------------------------ *)

\* C9: every teacher that ingestion created under the name N is found by a
\* report that names N: no report naming a teacher of the committed tables
\* is answered 404.  (The report's rule removes the spaces only;
\* generate_valid_email also removes every character outside [a-z0-9._-]
\* and strips '.' and '-' from both ends.)
C9_IngestedNameIsFound ==
    (resp.op = "report" /\ resp.code = 404)
    => \A t \in 1..Len(db.teachers) : db.teachers[t].name # resp.data.teacher_name

\* C10: after a successful ingestion no two committed timetable rows of one
\* teacher have the same (weekday, start, end).
C10_NoDuplicateSlot ==
    \A i, j \in 1..Len(db.timetable) :
        ( /\ i < j
          /\ db.timetable[i].teacher_id = db.timetable[j].teacher_id
          /\ db.timetable[i].day_of_week = db.timetable[j].day_of_week
          /\ db.timetable[i].start_time = db.timetable[j].start_time )
        => db.timetable[i].end_time # db.timetable[j].end_time

(* ------------------------------------------------------------------ *)
(* Ingestion: repetition, failure, what it persists                    *)
(* ------------------------------------------------------------------ *)

\* this step commits an ingestion
UploadCommitted == pc = "upload" /\ pc' = "idle" /\ resp'.op = "upload" /\ resp'.code = 201

\* the request before the one this step answers was a successful ingestion
\* of the same file
SameFileAgain ==
    /\ UploadCommitted
    /\ resp.op = "upload"
    /\ resp.code = 201
    /\ resp.file = resp'.file

TimetableSet(store) == {store.timetable[k] : k \in 1..Len(store.timetable)}

\* C11: ingesting the same file twice in succession leaves after the second
\* run the set of timetable rows and the Teacher rows of the first run, and
\* no run of ingestion changes a teacher's workload.
C11_ReingestionIsIdempotent ==
    [][ /\ UploadCommitted =>
            \A t \in 1..Len(db.teachers) :
                /\ t <= Len(db'.teachers)
                /\ db'.teachers[t] = db.teachers[t]
        /\ SameFileAgain =>
            /\ TimetableSet(db') = TimetableSet(db)
            /\ db'.teachers = db.teachers ]_vars

\* the second run of a file is about to commit: the session holds the same
\* rows as the first run committed, for teachers of whom one named in the
\* file has workload
C11_Witness ==
    /\ pc = "upload"
    /\ resp.op = "upload"
    /\ resp.code = 201
    /\ resp.file = req.file
    /\ req.i > Len(parsed[req.file].blocks)
    /\ sess.timetable # <<>>
    /\ TimetableSet(sess) = TimetableSet(db)
    /\ sess.teachers = db.teachers
    /\ \E k \in 1..Len(sess.timetable) :
          sess.teachers[sess.timetable[k].teacher_id].sub_workload > 0

\* this step answers an ingestion call with a failure
UploadFailed ==
    /\ pc' = "idle"
    /\ resp'.op = "upload"
    /\ resp'.code \in {400, 500}
    /\ pc = "upload" \/ (pc = "idle" /\ nReq' = nReq + 1)

\* C12: an ingestion call that fails (no teacher block found, or an error at
\* any point, also after the timetable rows were deleted and new Teacher rows
\* flushed) leaves the store unchanged: the committed tables are as before
\* the call and the session keeps nothing of it.
C12_FailedIngestionChangesNothing ==
    [][ /\ UploadFailed => (db' = db /\ sess' = db)
        /\ (pc = "upload" /\ ~UploadCommitted) => db' = db ]_vars

\* an ingestion failed on a file with blocks (so after the delete), one of
\* them of a teacher the store does not have, and the timetable and roster
\* of the ingestion before it are still there
C12_Witness ==
    /\ pc = "idle"
    /\ resp.op = "upload"
    /\ resp.code = 500
    /\ Files[resp.file].readable
    /\ parsed[resp.file].blocks # <<>>
    /\ \E b \in 1..Len(parsed[resp.file].blocks) :
          TeacherByEmail(db, parsed[resp.file].blocks[b].email) = 0
    /\ db.timetable # <<>>
    /\ db.teachers # <<>>
    /\ sess = db

(* ------------------------------------------------------------------ *)
(* Reports at the same time                                            *)
(* ------------------------------------------------------------------ *)

\* the SubstitutionHistory rows committed for teacher t
PeriodsCovered(t) ==
    Cardinality({h \in 1..Len(db.substitution_history) :
                    db.substitution_history[h].substitute_id = t})

\* C13: reports handled at the same time lose no workload increment: once
\* all of them have committed, every teacher's workload counts the periods
\* assigned to that teacher (as it did before they started).
C13_NoLostIncrement ==
    (\A p \in 1..Sessions : pc[p] \in {"idle", "done"})
    => \A t \in 1..Len(db.teachers) : db.teachers[t].sub_workload = PeriodsCovered(t)

(* ------------------------------------------------------------------ *)
(* Notification and the report                                         *)
(* ------------------------------------------------------------------ *)

\* C14: the report does not wait for a delivery attempt: while one is in
\* progress the handler can go on to its next period or to its commit.
C14_ReportDoesNotWaitForDelivery ==
    pc = "notify" => ENABLED (ReportPeriod \/ ReportCommit)

(* ------------------------------------------------------------------ *)
(* What ingestion persists                                             *)
(* ------------------------------------------------------------------ *)

\* C15: every persisted timetable entry is marked free exactly when its
\* class text is READING in any letter case (so that no report logs or
\* covers a READING period).
C15_FreeExactlyWhenReading ==
    \A e \in 1..Len(db.timetable) :
        db.timetable[e].is_free <=> (Upper(db.timetable[e].class_name) = <<"R","E","A","D","I","N","G">>)

\* C16: a block without entries leaves no trace in the roster: every
\* Teacher row a successful ingestion creates has an entry among those it
\* persists, and teachers_processed counts exactly the teachers' blocks
\* with entries.
C16_EmptyBlockIsDropped ==
    [][ UploadCommitted =>
          /\ \A t \in (Len(db.teachers) + 1)..Len(db'.teachers) :
                \E e \in 1..Len(db'.timetable) : db'.timetable[e].teacher_id = t
          /\ resp'.teachers_processed =
                Cardinality({b \in 1..Len(parsed[req.file].blocks) :
                                parsed[req.file].blocks[b].entries # <<>>}) ]_vars

(* ------------------------------------------------------------------ *)
(* Header cells that carry the HRT marker                              *)
(* ------------------------------------------------------------------ *)

\* the answer in resp is to an upload of the file whose grid is g
AnsweredUploadOf(g) ==
    /\ resp.op = "upload"
    /\ "file" \in DOMAIN resp
    /\ Files[resp.file].grid = g

\* C17 as stated: the grid whose header cell is 'HRT - 3A', immediately
\* above the weekday row, yields a teacher block: its ingestion finds a
\* block and succeeds.
C17_BareHrtCellYieldsBlock ==
    AnsweredUploadOf(BlockHrtOnly) =>
        /\ parsed[resp.file].blocks # <<>>
        /\ resp.code = 201

\* C17, amended: the header cell 'HRT Ann Lee - 3A' immediately above the
\* weekday row yields a block of its own, whose name holds neither 'HRT'
\* nor the class code nor the dash before it; the cell 'HRT - 3A', which
\* names no teacher, yields none and its file is refused.
C17_NamedHrtCellYieldsCleanBlock ==
    /\ AnsweredUploadOf(BlockHrtOnly) =>
          /\ parsed[resp.file].blocks = <<>>
          /\ resp.code = 500
    /\ (pc = "upload" /\ Files[req.file].grid = BlockAnn \o BlockAnnHrt) =>
          LET blocks == parsed[req.file].blocks
          IN  /\ Len(blocks) = 2
              /\ blocks[2].entries # <<>>
              /\ ~Contains(Upper(blocks[2].name), <<"H","R","T">>)
              /\ ~Contains(blocks[2].name, <<"3","A">>)
              /\ ~Contains(blocks[2].name, <<"-">>)
              /\ req.i > 2 =>
                    \E t \in 1..Len(sess.teachers) :
                        /\ sess.teachers[t].name = blocks[2].name
                        /\ \A k \in 1..Len(sess.teachers) :
                              sess.teachers[k].name = blocks[2].name => k = t

\* the bare cell's file has been refused and the named cell's file is being
\* ingested, both its blocks done
C17_Witness ==
    /\ AnsweredUploadOf(BlockHrtOnly)
    /\ resp.code = 500
    /\ pc = "upload"
    /\ Files[req.file].grid = BlockAnn \o BlockAnnHrt
    /\ req.i = 3
    /\ req.teachers_processed = 2
    /\ \E t \in 1..Len(sess.teachers) : sess.teachers[t].name = <<"A","n","n"," ","L","e","e">>

(* ------------------------------------------------------------------ *)
(* The status of an absence                                            *)
(* ------------------------------------------------------------------ *)

\* C18: every committed AbsenceLog row has status 'Absent' or 'Busy', and
\* a 'Busy' row has a reason (a report with another status leaves no row).
C18_StatusIsAbsentOrBusy ==
    \A a \in 1..Len(db.absence_log) :
        /\ db.absence_log[a].status \in {<<"A","b","s","e","n","t">>, <<"B","u","s","y">>}
        /\ db.absence_log[a].status = <<"B","u","s","y">> =>
              db.absence_log[a].reason # NoReason

(* ------------------------------------------------------------------ *)
(* The order within a tier                                             *)
(* ------------------------------------------------------------------ *)

\* the tier the last call selects from: the qualified teachers of the pool
\* if there are any, else the pool
TierForCall ==
    IF \E q \in PoolForCall : QualifiedForCall(q)
    THEN {q \in PoolForCall : QualifiedForCall(q)}
    ELSE PoolForCall

\* C19: the teacher find_substitute returns has the minimum workload of the
\* tier and, among the teachers of the tier with that workload, the lowest
\* id.
C19_MinWorkloadThenLowestId ==
    (sel.called /\ sel.result # 0) =>
        /\ sel.result \in TierForCall
        /\ \A t \in TierForCall :
              \/ Workload(sel.result) < Workload(t)
              \/ Workload(sel.result) = Workload(t) /\ sel.result <= t

(* ------------------------------------------------------------------ *)
(* The cap over a sequence of requests                                 *)
(* ------------------------------------------------------------------ *)

\* C20: from a store whose workloads are at most the cap, reports and
\* ingestions handled one after another never take a workload, committed
\* or pending, above the cap.
C20_WorkloadNeverAboveCap ==
    /\ \A t \in 1..Len(db.teachers) :
          db.teachers[t].sub_workload <= MAX_SUB_WORKLOAD_PER_WEEK
    /\ \A t \in 1..Len(sess.teachers) :
          sess.teachers[t].sub_workload <= MAX_SUB_WORKLOAD_PER_WEEK

\* a report of two periods, both processed: a teacher one below the cap got
\* the first, stands at the cap, and the second went to nobody
C20_Witness ==
    /\ pc = "report"
    /\ Len(req.classes) = 2
    /\ req.i > Len(req.classes)
    /\ req.substitution_results[2].substitute = NotFoundText
    /\ \E t \in 1..Len(db.teachers) :
          /\ db.teachers[t].sub_workload = MAX_SUB_WORKLOAD_PER_WEEK - 1
          /\ sess.teachers[t].sub_workload = MAX_SUB_WORKLOAD_PER_WEEK
          /\ req.substitution_results[1].substitute = db.teachers[t].name
          /\ \A k \in 1..Len(db.timetable) :
                db.timetable[k].teacher_id = t =>
                    db.timetable[k].day_of_week # WeekdayOf(req.data.absence_date)

(* ------------------------------------------------------------------ *)
(* What the selector does not look at: cover and absences on the date  *)
(* ------------------------------------------------------------------ *)

\* the AbsenceLog row the committed SubstitutionHistory row h belongs to
CoveredAbsence(h) == db.absence_log[db.substitution_history[h].absence_id]

\* C21: no teacher is the substitute of two different committed AbsenceLog
\* rows with the same date and the same (start, end).
C21_NoDoubleBooking ==
    \A h1, h2 \in 1..Len(db.substitution_history) :
        ( /\ db.substitution_history[h1].substitute_id =
                db.substitution_history[h2].substitute_id
          /\ CoveredAbsence(h1).date = CoveredAbsence(h2).date
          /\ CoveredAbsence(h1).start_time = CoveredAbsence(h2).start_time
          /\ CoveredAbsence(h1).end_time = CoveredAbsence(h2).end_time )
        => db.substitution_history[h1].absence_id = db.substitution_history[h2].absence_id

\* C22: a teacher with a committed AbsenceLog row for a date is not the
\* substitute of a row logged after it for the same date (rows are logged
\* in the order of the reports, and a report never picks its own absent
\* teacher).
C22_AbsentTeacherNotChosen ==
    \A a \in 1..Len(db.absence_log), h \in 1..Len(db.substitution_history) :
        ( /\ db.substitution_history[h].absence_id > a
          /\ CoveredAbsence(h).date = db.absence_log[a].date )
        => db.substitution_history[h].substitute_id # db.absence_log[a].absent_teacher_id

(* ------------------------------------------------------------------ *)
(* Notifications and what is committed                                 *)
(* ------------------------------------------------------------------ *)

\* the committed SubstitutionHistory row h is the assignment notification n
\* announces: the same substitute, date and period
Announces(n, h) ==
    /\ db.teachers[db.substitution_history[h].substitute_id].email = sent[n].to
    /\ CoveredAbsence(h).date = sent[n].date
    /\ CoveredAbsence(h).start_time \o <<"-">> \o CoveredAbsence(h).end_time = sent[n].period
    /\ db.substitution_history[h].class_name = sent[n].class_name

\* C23: once the handler has returned, every notification handed to the
\* mail server announces a committed SubstitutionHistory row: none is left
\* from a report that failed and was rolled back.
C23_NotifiedMeansCommitted ==
    pc = "idle" =>
        \A n \in 1..Len(sent) :
            \E h \in 1..Len(db.substitution_history) : Announces(n, h)

====
